---------------------------- MODULE Spec2Model ----------------------------
(***************************************************************************)
(* State-machine model of blackjax/smc/base.py: the SMCState / SMCInfo     *)
(* records, init, and the general SMC step.                                *)
(*                                                                         *)
(* Numbers.  A non-negative extended real is a pair <<n, d>> in lowest     *)
(* terms: n/d when d > 0, +inf as <<1, 0>>, NaN as <<0, 0>>.  A log-domain *)
(* number (a log-weight, a logsumexp, log N) is carried as the record      *)
(* [exp |-> q]: the real whose exponential is q, so that -inf is           *)
(* [exp |-> <<0, 1>>] and 0.0 is [exp |-> <<1, 1>>].  Subtraction of       *)
(* log-domain numbers is division of their exponentials; the IEEE special  *)
(* cases (-inf) - (-inf) = NaN, inf - inf = NaN fall out of 0/0.           *)
(***************************************************************************)
EXTENDS Integers, Sequences, FiniteSets, TLC

(* ------------------------------ bounds --------------------------------- *)

\* Largest population size (leading dimension of a leaf) that is explored.
MaxN == 2

\* Largest factor c of the offsets log(c), log(1/c) added to the log-weights.
MaxOffset == 3

(* --------------------------- extended reals ---------------------------- *)

RECURSIVE GCD(_, _)
GCD(a, b) == IF b = 0 THEN a ELSE GCD(b, a % b)

Norm(n, d) ==
    IF d = 0 THEN (IF n = 0 THEN <<0, 0>> ELSE <<1, 0>>)
    ELSE IF n = 0 THEN <<0, 1>>
    ELSE <<n \div GCD(n, d), d \div GCD(n, d)>>

NaN == <<0, 0>>
PosInf == <<1, 0>>
Zero == <<0, 1>>
One == <<1, 1>>

IsNaN(a) == a = NaN
IsInf(a) == a = PosInf
IsFin(a) == a[2] # 0

ExtAdd(a, b) ==
    IF IsNaN(a) \/ IsNaN(b) THEN NaN
    ELSE IF IsInf(a) \/ IsInf(b) THEN PosInf
    ELSE Norm(a[1] * b[2] + b[1] * a[2], a[2] * b[2])

ExtMul(a, b) == Norm(a[1] * b[1], a[2] * b[2])

ExtDiv(a, b) == Norm(a[1] * b[2], a[2] * b[1])

ExtMax(a, b) ==
    IF IsNaN(a) \/ IsNaN(b) THEN NaN
    ELSE IF IsInf(a) \/ IsInf(b) THEN PosInf
    ELSE IF a[1] * b[2] >= b[1] * a[2] THEN a ELSE b

RECURSIVE ExtSum(_)
ExtSum(v) == IF v = <<>> THEN Zero ELSE ExtAdd(Head(v), ExtSum(Tail(v)))

(* -------------------------- log-domain numbers ------------------------- *)

\* jnp.log and jnp.exp
jnp_log(q) == [exp |-> q]
jnp_exp(x) == x.exp

\* x - y and x + y on log-domain numbers
LogSub(x, y) == [exp |-> ExtDiv(x.exp, y.exp)]
LogAdd(x, y) == [exp |-> ExtMul(x.exp, y.exp)]

\* jnp.isfinite on a log-domain number: neither -inf, +inf nor NaN
LogIsFinite(x) == IsFin(x.exp) /\ x.exp # Zero

RECURSIVE LogMax(_)
LogMax(a) ==
    IF Len(a) = 1 THEN Head(a)
    ELSE [exp |-> ExtMax(Head(a).exp, LogMax(Tail(a)).exp)]

\* jax.scipy.special.logsumexp on a non-empty vector: shift by the maximum
\* (by 0 when the maximum is not finite), sum the exponentials, shift back.
logsumexp(a) ==
    LET amax0 == LogMax(a)
        amax  == IF LogIsFinite(amax0) THEN amax0 ELSE jnp_log(One)
        terms == [i \in 1..Len(a) |-> jnp_exp(LogSub(a[i], amax))]
    IN  LogAdd(jnp_log(ExtSum(terms)), amax)

(* ------------------------------ particles ------------------------------ *)

\* Entries of a leaf, and the number of leaves of a particle tree.
Vals == {0, 1}
LeafCounts == {1, 2}

\* All sequences over S of length exactly n.
SeqsOfLen(S, n) == [1..n -> S]

\* A leaf is an array with a leading dimension; a tree is the sequence of its
\* leaves in tree_flatten order.
LeavesUpTo(lo, hi) == UNION {SeqsOfLen(Vals, n) : n \in lo..hi}

\* Trees all of whose leaves have leading dimension n.
TreesOfSize(k, n) == SeqsOfLen(SeqsOfLen(Vals, n), k)
ValidTrees == UNION {TreesOfSize(k, n) : k \in LeafCounts, n \in 1..MaxN}

\* The trees the step is followed from: a second leaf, when there is one, holds
\* the other entry at every index, so the leaves differ everywhere.
StepTrees ==
    {tree \in ValidTrees :
        Len(tree) = 2 =>
            \A i \in 1..Len(tree[1]) : tree[2][i] # tree[1][i]}

\* Any tree of 0 to 2 leaves, leading dimensions 0..MaxN, not necessarily equal.
AnyTrees == UNION {SeqsOfLen(LeavesUpTo(0, MaxN), k) : k \in {0} \cup LeafCounts}

LeadingDims(tree) == {Len(tree[l]) : l \in 1..Len(tree)}

\* SMCState
SMCState(particles, weights) == [particles |-> particles, weights |-> weights]

\* A variant that leaves out the division: jnp.ones(n).
UniformWeightsUndivided(n) == [i \in 1..n |-> One]

\* jnp.ones(n) / n
UniformWeights(n) == [i \in 1..n |-> ExtDiv(One, <<n, 1>>)]

\* A variant that reads the last leaf.
NumParticlesLastLeaf(particles) == Len(particles[Len(particles)])

\* jax.tree_util.tree_flatten(particles)[0][0].shape[0]
NumParticlesOf(particles) == Len(particles[1])

\* init(particles), for a tree with at least one leaf
init(particles) ==
    SMCState(particles, UniformWeights(NumParticlesOf(particles)))


(* ------------------------------- keys ---------------------------------- *)

\* A PRNG key is the path of splits that derived it from the caller's key.
RootKeys == {<<1>>}

\* jax.random.split(key, n): n keys derived from key, fixed by (key, n).
split(key, n) == [i \in 1..n |-> key \o <<n, i>>]

(* -------------------------- injected functions ------------------------- *)

\* resample_fn(key, weights, num_resampled): num_resampled indices in [0, N).
ResampleOutputs(weights, n) == [1..n -> 0..(Len(weights) - 1)]

\* update_fn(keys, particles): the kernel either keeps every entry or moves
\* it, and returns count particles, cycling through its inputs.
UpdateKinds == {"same", "move"}
Moved(kind, v) == IF kind = "same" THEN v ELSE (v + 1) % Cardinality(Vals)
UpdateOutput(kind, count, particles) ==
    [l \in 1..Len(particles) |->
        [j \in 1..count |->
            Moved(kind, particles[l][((j - 1) % Len(particles[l])) + 1])]]

\* weight_fn(particles): one log-weight per particle, read off the particle's
\* entry in the first leaf through a table.
LogVals == {jnp_log(Zero), jnp_log(One), jnp_log(<<2, 1>>)}
WeightTables == [Vals -> LogVals]
WeightOutput(table, particles) ==
    [i \in 1..Len(particles[1]) |-> table[particles[1][i]]]

(* ------------------------------- state --------------------------------- *)

VARIABLES
    pc,            \* position in init / step
    arg_particles, \* the tree handed to the init call being followed
    raised,        \* exception raised by init, "none" if it returned
    population,    \* the caller's current SMCState
    info,          \* the SMCInfo returned by the step, once it has returned
    frame,         \* arguments and locals of the step in progress
    trace          \* that step's call, key splits and injected calls, in order

vars == <<pc, arg_particles, raised, population, info, frame, trace>>

NoInfo == [ancestors |-> <<>>, log_likelihood_increment |-> jnp_log(NaN),
           update_info |-> "none"]

SMCInfo(ancestors, log_likelihood_increment, update_info) ==
    [ancestors |-> ancestors,
     log_likelihood_increment |-> log_likelihood_increment,
     update_info |-> update_info]

\* The step's frame on entry: arguments bound, locals unset.
EntryFrame(rng_key, state, given, m) ==
    [rng_key |-> rng_key, state |-> state,
     num_resampled_given |-> given, num_resampled |-> m,
     updating_key |-> <<>>, resampling_key |-> <<>>,
     num_particles |-> 0,
     resampling_idx |-> <<>>, particles |-> <<>>, keys |-> <<>>,
     update_info |-> "none",
     log_weights |-> <<>>, logsum_weights |-> jnp_log(NaN),
     normalizing_constant |-> jnp_log(NaN), weights |-> <<>>]

NoFrame == EntryFrame(<<>>, SMCState(<<>>, <<>>), FALSE, 0)

Event(op, ks, arg, out) == [op |-> op, keys |-> ks, arg |-> arg, out |-> out]

(* ------------------------------- init ---------------------------------- *)

\* The program after construction: a population built by init from a tree
\* whose leaves share their leading dimension.
Init ==
    /\ \E particles \in StepTrees : population = init(particles)
    /\ arg_particles = <<>>
    /\ pc = "idle"
    /\ raised = "none"
    /\ info = NoInfo
    /\ frame = NoFrame
    /\ trace = <<>>

\* init as a function of an arbitrary tree.
InitCalled ==
    /\ arg_particles \in AnyTrees
    /\ population = SMCState(<<>>, <<>>)
    /\ pc = "init_call"
    /\ raised = "none"
    /\ info = NoInfo
    /\ frame = NoFrame
    /\ trace = <<>>

\* tree_flatten(particles)[0][0] on a tree without leaves
InitIndexError ==
    /\ pc = "init_call"
    /\ Len(arg_particles) = 0
    /\ raised' = "IndexError"
    /\ pc' = "init_done"
    /\ UNCHANGED <<arg_particles, population, info, frame, trace>>

InitReturn ==
    /\ pc = "init_call"
    /\ Len(arg_particles) > 0
    /\ population' = init(arg_particles)
    /\ pc' = "init_done"
    /\ UNCHANGED <<arg_particles, raised, info, frame, trace>>

NextInit == InitIndexError \/ InitReturn

SpecInit == InitCalled /\ [][NextInit]_vars

(* ------------------------------- step ---------------------------------- *)

\* step(rng_key, state, update_fn, weight_fn, resample_fn, num_resampled) is
\* entered on the caller's population; given is FALSE when num_resampled is
\* None.  pc then names the line of base.py that runs next.
Call ==
    /\ pc \in {"idle", "done"}
    /\ \E rng_key \in RootKeys, given \in BOOLEAN, m \in 1..MaxN :
        /\ given \/ m = 1
        /\ frame' = EntryFrame(rng_key, population, given, IF given THEN m ELSE 0)
        /\ trace' = <<Event("step", <<>>,
                           <<rng_key, given, IF given THEN m ELSE 0>>, <<>>)>>
    /\ info' = NoInfo
    /\ pc' = "l128"
    /\ UNCHANGED <<arg_particles, raised, population>>

\* updating_key, resampling_key = jax.random.split(rng_key, 2)
SplitRngKey ==
    /\ pc = "l128"
    /\ frame' = [frame EXCEPT !.updating_key = split(frame.rng_key, 2)[1],
                              !.resampling_key = split(frame.rng_key, 2)[2]]
    /\ trace' = Append(trace, Event("split", <<frame.rng_key>>, 2,
                                    split(frame.rng_key, 2)))
    /\ pc' = "l130"
    /\ UNCHANGED <<arg_particles, raised, population, info>>

\* state.weights.shape[0]
NumParticles(state) == Len(state.weights)

\* A variant that always draws as many ancestors as there are particles.
NumResampledIgnoringArg(given, m, n) == n

\* A variant whose default is a single ancestor.
NumResampledDefaultOne(given, m, n) == IF ~given THEN 1 ELSE m

\* num_resampled, defaulted to num_particles when it is None
NumResampled(given, m, n) == IF ~given THEN n ELSE m

\* num_particles = state.weights.shape[0]; default of num_resampled
CountParticles ==
    /\ pc = "l130"
    /\ frame' = [frame EXCEPT
            !.num_particles = NumParticles(frame.state),
            !.num_resampled = NumResampled(frame.num_resampled_given,
                                           frame.num_resampled,
                                           NumParticles(frame.state))]
    /\ pc' = "l135"
    /\ UNCHANGED <<arg_particles, raised, population, info, trace>>

\* A variant that hands the updating key to the resampler as well.
ResampleKeyReused(f) == f.updating_key

\* The key handed to resample_fn.
ResampleKey(f) == f.resampling_key

\* resampling_idx = resample_fn(resampling_key, state.weights, num_resampled)
Resample ==
    /\ pc = "l135"
    /\ \E idx \in ResampleOutputs(frame.state.weights, frame.num_resampled) :
        /\ frame' = [frame EXCEPT !.resampling_idx = idx]
        /\ trace' = Append(trace,
                Event("resample_fn", <<ResampleKey(frame)>>,
                      <<frame.state.weights, frame.num_resampled>>, idx))
    /\ pc' = "l136"
    /\ UNCHANGED <<arg_particles, raised, population, info>>

\* A gather that is off by one index.
GatherShifted(tree, idx) ==
    [l \in 1..Len(tree) |->
        [i \in 1..Len(idx) |-> tree[l][((idx[i] + 1) % Len(tree[l])) + 1]]]

\* jax.tree_map(lambda x: x[resampling_idx], state.particles)
Gather(tree, idx) ==
    [l \in 1..Len(tree) |-> [i \in 1..Len(idx) |-> tree[l][idx[i] + 1]]]

GatherAncestors ==
    /\ pc = "l136"
    /\ frame' = [frame EXCEPT
            !.particles = Gather(frame.state.particles, frame.resampling_idx)]
    /\ pc' = "l138"
    /\ UNCHANGED <<arg_particles, raised, population, info, trace>>

\* keys = jax.random.split(updating_key, num_resampled)
SplitUpdatingKey ==
    /\ pc = "l138"
    /\ frame' = [frame EXCEPT
            !.keys = split(frame.updating_key, frame.num_resampled)]
    /\ trace' = Append(trace, Event("split", <<frame.updating_key>>,
                    frame.num_resampled,
                    split(frame.updating_key, frame.num_resampled)))
    /\ pc' = "l139"
    /\ UNCHANGED <<arg_particles, raised, population, info>>

\* particles, update_info = update_fn(keys, particles)
Update ==
    /\ pc = "l139"
    /\ \E kind \in UpdateKinds, count \in 1..MaxN :
        LET out == UpdateOutput(kind, count, frame.particles) IN
        /\ frame' = [frame EXCEPT !.particles = out, !.update_info = kind]
        /\ trace' = Append(trace,
                Event("update_fn", frame.keys, frame.particles, out))
    /\ pc' = "l141"
    /\ UNCHANGED <<arg_particles, raised, population, info>>

\* A variant that weighs the prior population's particles.
WeightPrior ==
    /\ pc = "l141"
    /\ \E table \in WeightTables :
        LET out == WeightOutput(table, frame.state.particles) IN
        /\ frame' = [frame EXCEPT !.log_weights = out]
        /\ trace' = Append(trace,
                Event("weight_fn", <<>>, frame.state.particles, out))
    /\ pc' = "l142"
    /\ UNCHANGED <<arg_particles, raised, population, info>>

\* log_weights = weight_fn(particles)
Weight ==
    /\ pc = "l141"
    /\ \E table \in WeightTables :
        LET out == WeightOutput(table, frame.particles) IN
        /\ frame' = [frame EXCEPT !.log_weights = out]
        /\ trace' = Append(trace, Event("weight_fn", <<>>, frame.particles, out))
    /\ pc' = "l142"
    /\ UNCHANGED <<arg_particles, raised, population, info>>

\* A variant that counts the resampled particles instead.
LogNumResampled(f) == jnp_log(<<f.num_resampled, 1>>)

\* jnp.log(num_particles)
LogNumParticles(f) == jnp_log(<<f.num_particles, 1>>)

\* logsum_weights - jnp.log(num_particles)
NormalizingConstant(f, logsum) == LogSub(logsum, LogNumParticles(f))

\* A variant that exponentiates without subtracting the normalizer.
NormalizeUnshifted(log_weights, logsum) ==
    [i \in 1..Len(log_weights) |-> jnp_exp(log_weights[i])]

\* jnp.exp(log_weights - logsum_weights)
Normalize(log_weights, logsum) ==
    [i \in 1..Len(log_weights) |-> jnp_exp(LogSub(log_weights[i], logsum))]

\* logsumexp, normalizing constant, normalized weights, and the return of
\* SMCState(particles, weights), SMCInfo(resampling_idx, ..., update_info)
ReweightAndReturn ==
    /\ pc = "l142"
    /\ LET logsum == logsumexp(frame.log_weights)
           normalizing_constant ==
               NormalizingConstant(frame, logsum)
           weights == Normalize(frame.log_weights, logsum)
       IN
        /\ frame' = [frame EXCEPT
                !.logsum_weights = logsum,
                !.normalizing_constant = normalizing_constant,
                !.weights = weights]
        /\ population' = SMCState(frame.particles, weights)
        /\ info' = SMCInfo(frame.resampling_idx, normalizing_constant,
                           frame.update_info)
    /\ pc' = "done"
    /\ UNCHANGED <<arg_particles, raised, trace>>

Next ==
    \/ Call
    \/ SplitRngKey
    \/ CountParticles
    \/ Resample
    \/ GatherAncestors
    \/ SplitUpdatingKey
    \/ Update
    \/ Weight
    \/ ReweightAndReturn

Spec == Init /\ [][Next]_vars

(* ------------------------- reading the trace --------------------------- *)

EventsOf(op) == SelectSeq(trace, LAMBDA e : e.op = op)
Happened(op) == Len(EventsOf(op)) > 0
The(op) == EventsOf(op)[1]

Returned == pc = "done"

\* The arguments of the call, the prior population and its size.
CallArgs == The("step").arg
OmittedNumResampled == ~CallArgs[2]
Prior == frame.state
PriorN == Len(frame.state.weights)

\* The number of particles of a tree.
TreeSize(tree) == Len(tree[1])

\* The sum of exp(x) over a vector of log-domain numbers.
SumExp(a) == ExtSum([i \in 1..Len(a) |-> a[i].exp])

SomeFinite(a) == \E i \in 1..Len(a) : LogIsFinite(a[i])

\* Weights that are finite, non-negative and sum to one.
IsNormalized(w) ==
    /\ \A i \in 1..Len(w) : IsFin(w[i]) /\ w[i][1] >= 0
    /\ ExtSum(w) = One

\* The offsets log(c) and log(1/c), and a log-weight vector shifted by one.
Offsets == {jnp_log(<<c, 1>>) : c \in 1..MaxOffset}
               \cup {jnp_log(<<1, c>>) : c \in 1..MaxOffset}
Shifted(a, c) == [i \in 1..Len(a) |-> LogAdd(a[i], c)]

Half == <<1, 2>>

(* ------------------------------- claims -------------------------------- *)

C2_IncrementUsesPriorSize ==
    Returned =>
        LET lw == The("weight_fn").out IN
        /\ info.log_likelihood_increment
               = jnp_log(ExtDiv(SumExp(lw), <<PriorN, 1>>))
        /\ ( /\ PriorN = 2
             /\ Prior.weights = <<Half, Half>>
             /\ The("update_fn").out = Prior.particles
             /\ lw = <<jnp_log(One), jnp_log(One)>> )
           => /\ info.log_likelihood_increment = jnp_log(One)
              /\ population.weights = <<Half, Half>>

\* C2 witness: a step over N = 2 particles that resampled M = 1 and whose
\* update returned 1 particle, with log-weight log 2: the increment is
\* log(2 / 2) = 0, where M or the returned count would give log 2.
C2_Witness ==
    /\ Returned
    /\ PriorN = 2
    /\ Len(info.ancestors) = 1
    /\ TreeSize(The("update_fn").out) = 1
    /\ The("weight_fn").out = <<jnp_log(<<2, 1>>)>>
    /\ info.log_likelihood_increment = jnp_log(One)

InitDone == pc = "init_done"

\* The leaves of the tree handed to init share one leading dimension.
LeavesAgree == Cardinality(LeadingDims(arg_particles)) = 1

\* C4: for a tree whose leaves all share a leading dimension N >= 1, init
\* returns the given particles unchanged with the length-N weight vector whose
\* entries are all 1/N and sum to 1, N being the first leaf's leading
\* dimension.
C4_InitUniform ==
    (InitDone /\ LeavesAgree /\ Len(arg_particles[1]) >= 1) =>
        LET N == Len(arg_particles[1]) IN
        /\ raised = "none"
        /\ population.particles = arg_particles
        /\ Len(population.weights) = N
        /\ \A i \in 1..N : population.weights[i] = <<1, N>>
        /\ ExtSum(population.weights) = One

\* C4 witness: init returned for a two-leaf tree of two particles.
C4_Witness ==
    /\ InitDone
    /\ arg_particles = <<(<<0, 1>>), (<<1, 1>>)>>
    /\ population.weights = <<Half, Half>>

\* C8 as stated: init fails with ShapeMismatchError when the leaves disagree
\* on their leading dimension.
C8_InitRejectsMismatch ==
    (InitDone /\ Len(arg_particles) >= 1 /\ ~LeavesAgree) =>
        raised = "ShapeMismatchError"

\* C8 amended: init does not validate the leaves: when they disagree on their
\* leading dimension it raises nothing and returns the given particles with
\* the uniform weight vector whose length is the leading dimension of the
\* first leaf.
C8_InitTrustsFirstLeaf ==
    (InitDone /\ Len(arg_particles) >= 1 /\ ~LeavesAgree) =>
        LET N == Len(arg_particles[1]) IN
        /\ raised = "none"
        /\ population.particles = arg_particles
        /\ Len(population.weights) = N
        /\ \A i \in 1..N : population.weights[i] = <<1, N>>

\* C8 witness: init returned two weights for a first leaf of two particles
\* and a second leaf of one.
C8_Witness ==
    /\ InitDone
    /\ arg_particles = <<(<<0, 1>>), (<<1>>)>>
    /\ raised = "none"
    /\ Len(population.weights) = 2

\* C6: when num_resampled is omitted the step resamples exactly N ancestors,
\* N the length of the input weight vector, and if update_fn returned as many
\* particles as it received keys (weight_fn returning one log-weight per
\* particle) the output weight vector is as long as the input weight vector.
C6_DefaultKeepsSize ==
    (Returned /\ OmittedNumResampled) =>
        /\ The("resample_fn").arg = <<Prior.weights, PriorN>>
        /\ Len(info.ancestors) = PriorN
        /\ (TreeSize(The("update_fn").out) = Len(The("update_fn").keys)
            /\ Len(The("weight_fn").out) = TreeSize(The("weight_fn").arg))
           => /\ Len(population.weights) = Len(Prior.weights)
              /\ TreeSize(population.particles) = Len(Prior.weights)

\* C6 witness: a default step over two particles returned two particles.
C6_Witness ==
    /\ Returned
    /\ OmittedNumResampled
    /\ PriorN = 2
    /\ Len(The("update_fn").keys) = 2
    /\ Len(population.weights) = 2

\* The call is a waste-free one: num_resampled = M < N and the update
\* expanded its M inputs to N outputs.
WasteFree ==
    /\ ~OmittedNumResampled
    /\ CallArgs[3] < PriorN
    /\ TreeSize(The("update_fn").out) = PriorN

\* The sizes of a waste-free step: resample_fn is asked for M indices,
\* update_fn receives M keys and M gathered particles, the returned population
\* has N particles and N weights, and ancestors has length M.
WasteFreeSizes ==
    LET M == CallArgs[3] IN
    /\ The("resample_fn").arg = <<Prior.weights, M>>
    /\ Len(The("resample_fn").out) = M
    /\ Len(The("update_fn").keys) = M
    /\ \A l \in 1..Len(The("update_fn").arg) :
        Len(The("update_fn").arg[l]) = M
    /\ \A l \in 1..Len(population.particles) :
        Len(population.particles[l]) = PriorN
    /\ Len(population.weights) = PriorN
    /\ Len(info.ancestors) = M

InjectedOps ==
    LET called == SelectSeq(trace,
            LAMBDA e : e.op \in {"resample_fn", "update_fn", "weight_fn"})
    IN  [i \in 1..Len(called) |-> called[i].op]

IsPrefix(a, b) == Len(a) <= Len(b) /\ \A i \in 1..Len(a) : a[i] = b[i]

\* tree holds, leaf by leaf, the prior particles at the indices idx.
IsGatherOfPrior(tree, idx) ==
    /\ Len(tree) = Len(Prior.particles)
    /\ \A l \in 1..Len(tree) :
        /\ Len(tree[l]) = Len(idx)
        /\ \A i \in 1..Len(idx) : tree[l][i] = Prior.particles[l][idx[i] + 1]

RECURSIVE ConsumedKeys(_)
ConsumedKeys(t) ==
    IF t = <<>> THEN <<>> ELSE Head(t).keys \o ConsumedKeys(Tail(t))

NoRepeats(a) == \A i, j \in 1..Len(a) : a[i] = a[j] => i = j

Contains(a, x) == \E i \in 1..Len(a) : a[i] = x

\* C10: no key is used twice in a step: rng_key is consumed by one split into
\* the updating and the resampling key, the resampling key only by
\* resample_fn, the updating key by one split into num_resampled keys, which
\* go to update_fn, one per resampled particle; rng_key and the updating key
\* are handed to no injected function.
C10_KeysUsedOnce ==
    /\ NoRepeats(ConsumedKeys(trace))
    /\ Returned =>
        LET splits == EventsOf("split")
            rng_key == CallArgs[1]
        IN
        /\ Len(splits) = 2
        /\ splits[1].keys = <<rng_key>>
        /\ Len(splits[1].out) = 2
        /\ splits[2].keys = <<splits[1].out[1]>>
        /\ Len(splits[2].out) = Len(info.ancestors)
        /\ The("resample_fn").keys = <<splits[1].out[2]>>
        /\ The("update_fn").keys = splits[2].out
        /\ Len(The("update_fn").keys) = TreeSize(The("update_fn").arg)
        /\ The("weight_fn").keys = <<>>
        /\ \A op \in {"resample_fn", "update_fn"} :
            /\ ~Contains(The(op).keys, rng_key)
            /\ ~Contains(The(op).keys, splits[1].out[1])

\* C10 witness: a returned step that resampled two particles, so that five
\* keys were consumed: rng_key, the two it was split into, and two more.
C10_Witness ==
    /\ Returned
    /\ Len(info.ancestors) = 2
    /\ Len(ConsumedKeys(trace)) = 5

=============================================================================
